---- MODULE Spec2Model ----
(***************************************************************************)
(* imgstack: merge a batch of equally-sized images into one output image   *)
(* under one of five accumulation modes (src/src/main.rs).                 *)
(*                                                                         *)
(* The model follows main() step by step: the output-path checks, the      *)
(* dimension validation loop, the lazily decoding input iterator, the      *)
(* per-mode fold over the accumulator image, the Average finalization and  *)
(* the final save.  The file system the program reads is a fixed table of  *)
(* files (FS); the command line (mode, overwrite flag, input list, state   *)
(* of the output path) is chosen in Init.                                  *)
(***************************************************************************)
EXTENDS Integers, Sequences, FiniteSets, TLC

\* Longest input list explored.
MaxInputs == 3

\* u8::MAX, the largest channel value.
U8Max == 255

\* Number of significand bits of an f32 (including the hidden bit).
MantBits == 24

VARIABLES
    mode,       \* args.mode
    overwrite,  \* args.overwrite
    inputs,     \* args.inputs: sequence of file names
    outFile,    \* what is at the output path
    pc,         \* position in main()
    err,        \* kind of the error returned by main(), "none" while running
    errInput,   \* index (1-based) of the input the error names, 0 if none
    width,      \* reference width  (from the first input)
    height,     \* reference height (from the first input)
    idx,        \* index of the next input of the running loop
    outImg,     \* the accumulator image: sequence of pixels, row-major
    divisor,    \* Average: inputs.len() as f32
    queried,    \* indices of the inputs image_dimensions() was called on
    folded      \* indices of the inputs folded into outImg, in order

vars == <<mode, overwrite, inputs, outFile, pc, err, errInput, width, height,
          idx, outImg, divisor, queried, folded>>

Modes == {"Sum", "SumOverflow", "Min", "Max", "Average"}

----------------------------------------------------------------------------
(* Arithmetic helpers *)

RECURSIVE Pow2(_)
Pow2(n) == IF n = 0 THEN 1 ELSE 2 * Pow2(n - 1)

RECURSIVE BitLen(_)
BitLen(x) == IF x = 0 THEN 0 ELSE 1 + BitLen(x \div 2)

MinOf(a, b) == IF a <= b THEN a ELSE b

MaxOf(a, b) == IF a >= b THEN a ELSE b

----------------------------------------------------------------------------
(* f32 arithmetic of the Average accumulator.                              *)
(*                                                                         *)
(* A non-negative finite f32 is [m, e] with value m * 2^e, where m = 0     *)
(* (zero, e = 0) or 2^23 <= m < 2^24.  Every operation rounds to nearest,  *)
(* ties to even, as IEEE 754 binary32 does.  All values of the program are *)
(* non-negative and far from the subnormal and overflow ranges.            *)

F32Zero == [m |-> 0, e |-> 0]

\* The f32 nearest to x * 2^e (plus, when sticky, a positive amount smaller
\* than 2^e that only matters for breaking ties).  x < 2^31.
F32Round(x, e, sticky) ==
    IF x = 0 THEN F32Zero
    ELSE LET n == BitLen(x) IN
         IF n <= MantBits
         THEN [m |-> x * Pow2(MantBits - n), e |-> e - (MantBits - n)]
         ELSE LET s    == n - MantBits
                  q    == x \div Pow2(s)
                  r    == x % Pow2(s)
                  half == Pow2(s - 1)
                  up   == r > half \/ (r = half /\ (sticky \/ q % 2 = 1))
                  m1   == IF up THEN q + 1 ELSE q
              IN IF m1 = Pow2(MantBits)
                 THEN [m |-> Pow2(MantBits - 1), e |-> e + s + 1]
                 ELSE [m |-> m1, e |-> e + s]

\* `v as f32` for an integer 0 <= v < 2^24: exact.
F32FromInt(v) == F32Round(v, 0, FALSE)

\* a <= b
F32Le(a, b) ==
    IF a.m = 0 THEN TRUE
    ELSE IF b.m = 0 THEN FALSE
    ELSE a.e < b.e \/ (a.e = b.e /\ a.m <= b.m)

\* a + b
F32Add(a, b) ==
    IF a.m = 0 THEN b
    ELSE IF b.m = 0 THEN a
    ELSE LET hi == IF a.e >= b.e THEN a ELSE b
             lo == IF a.e >= b.e THEN b ELSE a
             d  == hi.e - lo.e
             \* three guard bits below hi's least significant bit
             sh == IF d <= 3 THEN lo.m * Pow2(3 - d)
                   ELSE IF d - 3 >= MantBits THEN 0
                   ELSE lo.m \div Pow2(d - 3)
             st == IF d <= 3 THEN FALSE
                   ELSE IF d - 3 >= MantBits THEN TRUE
                   ELSE lo.m % Pow2(d - 3) # 0
         IN F32Round(hi.m * 8 + sh, hi.e - 3, st)

\* Binary long division: k quotient bits of rem/den, one bit per step
\* (rem < 2*den throughout).  Returns <<quotient, remainder>>.
RECURSIVE LongDiv(_, _, _, _)
LongDiv(rem, den, q, k) ==
    IF k = 0 THEN <<q, rem>>
    ELSE IF rem >= den
         THEN LongDiv(2 * (rem - den), den, 2 * q + 1, k - 1)
         ELSE LongDiv(2 * rem, den, 2 * q, k - 1)

\* a / b, b # 0
F32Div(a, b) ==
    IF a.m = 0 THEN F32Zero
    ELSE LET qr == LongDiv(a.m, b.m, 0, MantBits + 2)
         IN F32Round(qr[1], a.e - b.e - (MantBits + 1), qr[2] # 0)

\* a * (k as f32) for an integer 1 <= k <= 255.  The product of the
\* significands (up to 32 bits) is built from the two 12-bit halves of a.m;
\* when it needs more than 30 bits its two lowest bits are folded into the
\* sticky flag.
F32MulInt(a, k) ==
    IF a.m = 0 THEN F32Zero
    ELSE LET h == a.m \div 4096
             l == a.m % 4096
             H == h * k + (l * k) \div 4096
             L == (l * k) % 4096
         IN IF BitLen(H) + 12 <= 30
            THEN F32Round(H * 4096 + L, a.e, FALSE)
            ELSE F32Round(H * 1024 + L \div 4, a.e + 2, L % 4 # 0)

\* f32::round: nearest integer, halves away from zero (result < 2^24).
F32RoundToInt(a) ==
    IF a.m = 0 THEN 0
    ELSE IF a.e >= 0 THEN a.m * Pow2(a.e)
    ELSE IF -a.e > MantBits THEN 0
    ELSE LET s == -a.e
             q == a.m \div Pow2(s)
             r == a.m % Pow2(s)
         IN IF r >= Pow2(s - 1) THEN q + 1 ELSE q

F32One == F32FromInt(1)

\* f32::clamp(0.0, 1.0) on a non-negative value.
F32Clamp01(a) == IF F32Le(a, F32One) THEN a ELSE F32One

----------------------------------------------------------------------------
(* The files the program can be pointed at.                                *)
(*   exists, isFile : Path::exists(), Path::is_file()                      *)
(*   dims           : what image_dimensions() reads from the header,       *)
(*                    <<>> when the header cannot be read                  *)
(*   fmt            : the DynamicImage variant decode() yields,            *)
(*                    "none" when decoding fails                           *)
(*   pixels         : the decoded pixels, row-major                        *)

NoFile(ex, isf) ==
    [exists |-> ex, isFile |-> isf, dims |-> <<>>, fmt |-> "none", pixels |-> <<>>]

Image(w, h, f, px) ==
    [exists |-> TRUE, isFile |-> TRUE, dims |-> <<w, h>>, fmt |-> f, pixels |-> px]

FS ==
    [ a       |-> Image(2, 1, "Rgb8",  << <<200, 100, 0>>, <<255, 1, 128>> >>),
      b       |-> Image(2, 1, "Rgb8",  << <<100, 255, 3>>, <<1, 254, 127>> >>),
      c       |-> Image(2, 1, "Rgba8", << <<56, 7, 250, 9>>, <<0, 90, 255, 255>> >>),
      narrow  |-> Image(1, 1, "Rgb8",  << <<9, 8, 7>> >>),
      tall    |-> Image(2, 2, "Rgb8",  << <<1, 2, 3>>, <<4, 5, 6>>,
                                          <<7, 8, 9>>, <<10, 11, 12>> >>),
      gray    |-> Image(2, 1, "Luma8", << <<5>>, <<6>> >>),
      corrupt |-> Image(2, 1, "none",  <<>>),
      junk    |-> NoFile(TRUE, TRUE),
      dir     |-> NoFile(TRUE, FALSE),
      missing |-> NoFile(FALSE, FALSE) ]

Paths == DOMAIN FS

File(i) == FS[inputs[i]]

\* image_dimensions(path).is_ok(): the file opens and its header is readable.
DimsOk(f) == f.exists /\ f.isFile /\ f.dims # <<>>

\* ImageReader::new(file).with_guessed_format()?.decode().is_ok()
DecodeOk(f) == f.exists /\ f.isFile /\ f.fmt # "none"

\* The match on the decoded image's variant: Rgb8 and Rgba8 pass.
FormatOk(f) == f.fmt \in {"Rgb8", "Rgba8"}

----------------------------------------------------------------------------
(* Pixels *)

\* GenericImageView::pixels() of a DynamicImage yields Rgba<u8>.
ToRgba(f, px) ==
    CASE f = "Rgb8"  -> <<px[1], px[2], px[3], U8Max>>
      [] f = "Rgba8" -> px
      [] OTHER       -> <<px[1], px[1], px[1], U8Max>>

\* Pixel::to_rgb() of an Rgba<u8>: the alpha channel is dropped.
ToRgb(px) == <<px[1], px[2], px[3]>>

\* The samples the fold sees for one decoded file.
Samples(f) == [i \in 1..Len(f.pixels) |-> ToRgb(ToRgba(f.fmt, f.pixels[i]))]

\* Sum wraps instead of saturating.
OpSumWraps(md, acc, samp) ==
    CASE md = "Sum"         -> (acc + samp) % (U8Max + 1)
      [] md = "SumOverflow" -> (acc + samp) % (U8Max + 1)
      [] md = "Min"         -> MinOf(acc, samp)
      [] md = "Max"         -> MaxOf(acc, samp)

\* SumOverflow saturates instead of wrapping.
OpOverflowSaturates(md, acc, samp) ==
    CASE md = "Sum"         -> MinOf(acc + samp, U8Max)
      [] md = "SumOverflow" -> MinOf(acc + samp, U8Max)
      [] md = "Min"         -> MinOf(acc, samp)
      [] md = "Max"         -> MaxOf(acc, samp)

\* Max keeps the newer sample, whatever the accumulator holds.
OpMaxKeepsNewer(md, acc, samp) ==
    CASE md = "Sum"         -> MinOf(acc + samp, U8Max)
      [] md = "SumOverflow" -> (acc + samp) % (U8Max + 1)
      [] md = "Min"         -> MinOf(acc, samp)
      [] md = "Max"         -> samp

\* The per-channel closure `op` selected by the mode.
Op(md, acc, samp) ==
    CASE md = "Sum"         -> MinOf(acc + samp, U8Max)        \* saturating_add
      [] md = "SumOverflow" -> (acc + samp) % (U8Max + 1)      \* overflowing_add(..).0
      [] md = "Min"         -> MinOf(acc, samp)
      [] md = "Max"         -> MaxOf(acc, samp)

\* acc.apply2(&sample, op) over outImg.pixels_mut().zip(img.pixels())
FoldU8(md, acc, smp) ==
    [i \in 1..Len(acc) |->
        IF i <= Len(smp)
        THEN [ch \in 1..3 |-> Op(md, acc[i][ch], smp[i][ch])]
        ELSE acc[i]]

\* The whole fold as a function of the mode, the seed and the input list:
\* `for img in inputs { ... }` with every input decoding successfully.
RECURSIVE FoldAll(_, _, _)
FoldAll(md, acc, ins) ==
    IF ins = <<>> THEN acc
    ELSE FoldAll(md, FoldU8(md, acc, Samples(FS[Head(ins)])), Tail(ins))

\* The sample is converted to f32 but not divided by 255.
NormalizedUnscaled(v) == F32FromInt(v)

\* sample.0.map(|v| v as f32 / 255.0)
Normalized(v) == F32Div(F32FromInt(v), F32FromInt(U8Max))

\* acc.apply2(&sample, |acc, sample| acc + sample) over the zipped pixels
FoldF32(acc, smp) ==
    [i \in 1..Len(acc) |->
        IF i <= Len(smp)
        THEN [ch \in 1..3 |-> F32Add(acc[i][ch], Normalized(smp[i][ch]))]
        ELSE acc[i]]

\* The Average fold as a function of the seed and the input list:
\* `for img in inputs { ... }` with every input decoding successfully.
RECURSIVE FoldAllF32(_, _)
FoldAllF32(acc, ins) ==
    IF ins = <<>> THEN acc
    ELSE FoldAllF32(FoldF32(acc, Samples(FS[Head(ins)])), Tail(ins))

\* p.apply(|v| v / divisor)
Divide(img, d) == [i \in 1..Len(img) |-> [ch \in 1..3 |-> F32Div(img[i][ch], d)]]

\* f32 -> u8 of ConvertBuffer: (v.clamp(0.0, 1.0) * 255.0).round() as u8
F32ToU8(v) == F32RoundToInt(F32MulInt(F32Clamp01(v), U8Max))

\* Rgb32FImage -> RgbImage
Convert(img) == [i \in 1..Len(img) |-> [ch \in 1..3 |-> F32ToU8(img[i][ch])]]

\* RgbImage::new / Rgb32FImage::new: every channel zero.
NewImage(w, h, zero) == [i \in 1..(w * h) |-> <<zero, zero, zero>>]

----------------------------------------------------------------------------
(* main() *)

\* What is at the output path when it is not an image this run saved:
\* nothing ("absent"), a directory ("dir"), an earlier file ("old") or the
\* remains of a failed save ("partial").
NotSaved(k) == [kind |-> k, width |-> 0, height |-> 0, pixels |-> <<>>]

InputLists == UNION {[1..n -> Paths] : n \in 1..MaxInputs}

Init ==
    /\ mode \in Modes
    /\ overwrite \in BOOLEAN
    /\ inputs \in InputLists
    /\ outFile \in {NotSaved("absent"), NotSaved("dir"), NotSaved("old")}
    /\ pc = "start"
    /\ err = "none"
    /\ errInput = 0
    /\ width = 0
    /\ height = 0
    /\ idx = 0
    /\ outImg = <<>>
    /\ divisor = F32Zero
    /\ queried = {}
    /\ folded = <<>>

\* return Err(..) / `?`: main() returns, nothing else changes.
Fail(kind, which) ==
    /\ pc' = "failed"
    /\ err' = kind
    /\ errInput' = which

\* outFile.is_dir()
OutIsDir == outFile.kind = "dir"

\* outFile.exists()
OutExists == outFile.kind # "absent"

\* The output path checks.
CheckOutput ==
    /\ pc = "start"
    /\ IF OutIsDir
       THEN Fail("OutputIsDirectory", 0)
       ELSE IF OutExists /\ ~overwrite
            THEN Fail("OutputExistsNoOverwrite", 0)
            ELSE pc' = "first" /\ UNCHANGED <<err, errInput>>
    /\ UNCHANGED <<mode, overwrite, inputs, outFile, width, height, idx,
                   outImg, divisor, queried, folded>>

\* image_dimensions(args.inputs.first().unwrap())
QueryFirst ==
    /\ pc = "first"
    /\ queried' = queried \cup {1}
    /\ IF DimsOk(File(1))
       THEN /\ width' = File(1).dims[1]
            /\ height' = File(1).dims[2]
            /\ idx' = 2
            /\ pc' = IF Len(inputs) = 1 THEN "alloc" ELSE "validate"
            /\ UNCHANGED <<err, errInput>>
       ELSE /\ Fail("DimensionQueryFailed", 1)
            /\ UNCHANGED <<width, height, idx>>
    /\ UNCHANGED <<mode, overwrite, inputs, outFile, outImg, divisor, folded>>

\* The file is there: file.exists() && file.is_file()
Present(f) == f.exists /\ f.isFile

\* The sizes are compared with && in place of ||.
MismatchBoth(w, h, d) == w # d[1] /\ h # d[2]

\* width != otherWidth || height != otherHeight
Mismatch(w, h, d) == w # d[1] \/ h # d[2]

\* One iteration of `for file in args.inputs.iter().skip(1)`.
ValidateNext ==
    /\ pc = "validate"
    /\ idx <= Len(inputs)
    /\ LET f == File(idx) IN
       IF ~Present(f)
       THEN /\ Fail("InputMissing", idx)
            /\ UNCHANGED <<idx, queried>>
       ELSE /\ queried' = queried \cup {idx}
            /\ IF ~DimsOk(f)
               THEN Fail("DimensionQueryFailed", idx) /\ UNCHANGED idx
               ELSE IF Mismatch(width, height, f.dims)
                    THEN Fail("DimensionMismatch", idx) /\ UNCHANGED idx
                    ELSE /\ idx' = idx + 1
                         /\ pc' = IF idx = Len(inputs) THEN "alloc" ELSE "validate"
                         /\ UNCHANGED <<err, errInput>>
    /\ UNCHANGED <<mode, overwrite, inputs, outFile, width, height, outImg,
                   divisor, folded>>

\* The accumulator's first contents.
Seed(md, w, h) ==
    IF md = "Average" THEN NewImage(w, h, F32Zero) ELSE NewImage(w, h, 0)

\* The divisor counts one input too many.
DivisorOffByOne(n) == F32FromInt(n + 1)

\* inputs.len() as f32
Divisor(n) == F32FromInt(n)

\* The accumulator is created and the output file is opened for writing
\* at the same time, before any input is folded.
AllocateOpensOutput ==
    /\ pc = "alloc"
    /\ outImg' = Seed(mode, width, height)
    /\ divisor' = IF mode = "Average" THEN Divisor(Len(inputs)) ELSE divisor
    /\ idx' = 1
    /\ pc' = "fold"
    /\ outFile' = NotSaved("partial")
    /\ UNCHANGED <<mode, overwrite, inputs, err, errInput, width,
                   height, queried, folded>>

\* `match args.mode`: the accumulator is created; Average also fixes the divisor.
Allocate ==
    /\ pc = "alloc"
    /\ outImg' = Seed(mode, width, height)
    /\ divisor' = IF mode = "Average" THEN Divisor(Len(inputs)) ELSE divisor
    /\ idx' = 1
    /\ pc' = "fold"
    /\ UNCHANGED <<mode, overwrite, inputs, outFile, err, errInput, width,
                   height, queried, folded>>

\* The position after input i has been folded.
AfterFold(md, i, n) ==
    IF i < n THEN "fold" ELSE IF md = "Average" THEN "finalize" ELSE "save"

\* One iteration of `for img in inputs`: the iterator's closure opens,
\* decodes and format-checks the next input, then the loop body folds it.
FoldNext ==
    /\ pc = "fold"
    /\ idx <= Len(inputs)
    /\ LET f == File(idx) IN
       IF ~DecodeOk(f)
       THEN /\ Fail("DecodeFailed", idx)
            /\ UNCHANGED <<idx, outImg, folded>>
       ELSE IF ~FormatOk(f)
            THEN /\ Fail("UnsupportedPixelFormat", idx)
                 /\ UNCHANGED <<idx, outImg, folded>>
            ELSE /\ outImg' = IF mode = "Average"
                              THEN FoldF32(outImg, Samples(f))
                              ELSE FoldU8(mode, outImg, Samples(f))
                 /\ folded' = Append(folded, idx)
                 /\ idx' = idx + 1
                 /\ pc' = AfterFold(mode, idx, Len(inputs))
                 /\ UNCHANGED <<err, errInput>>
    /\ UNCHANGED <<mode, overwrite, inputs, outFile, width, height, divisor,
                   queried>>

\* Average: divide by the divisor, then convert to 8 bits.
Finalize ==
    /\ pc = "finalize"
    /\ outImg' = Convert(Divide(outImg, divisor))
    /\ pc' = "save"
    /\ UNCHANGED <<mode, overwrite, inputs, outFile, err, errInput, width,
                   height, idx, divisor, queried, folded>>

\* What a successful save leaves at the output path.
Saved(w, h, img) == [kind |-> "image", width |-> w, height |-> h, pixels |-> img]

\* outImg.save(outFile): succeeds, or fails (unknown extension, I/O error)
\* leaving the path as it was or holding a partial file.
Save ==
    /\ pc = "save"
    /\ \/ /\ outFile' = Saved(width, height, outImg)
          /\ pc' = "done"
          /\ UNCHANGED <<err, errInput>>
       \/ /\ Fail("EncodeFailed", 0)
          /\ outFile' \in {outFile, NotSaved("partial")}
    /\ UNCHANGED <<mode, overwrite, inputs, width, height, idx, outImg,
                   divisor, queried, folded>>

Next ==
    \/ CheckOutput
    \/ QueryFirst
    \/ ValidateNext
    \/ Allocate
    \/ FoldNext
    \/ Finalize
    \/ Save

Spec == Init /\ [][Next]_vars

----------------------------------------------------------------------------
(* Vocabulary of the properties *)

N == Len(inputs)

\* The output path holds what it held when the program started.
OutputUntouched == outFile.kind \in {"absent", "dir", "old"}

\* The program finished and saved its image.
Done == pc = "done"

\* Every input passed validation, decoding and the format check, and was folded.
AllValidatedAndFolded ==
    /\ err = "none"
    /\ queried = 1..N
    /\ folded = [i \in 1..N |-> i]
    /\ \A i \in 1..N :
          /\ Present(File(i))
          /\ DimsOk(File(i))
          /\ File(i).dims = <<width, height>>
          /\ DecodeOk(File(i))
          /\ FormatOk(File(i))

\* The 8-bit value input k contributes at pixel i, channel ch.
Value(k, i, ch) == Samples(File(k))[i][ch]

RECURSIVE SumAt(_, _, _)
SumAt(k, i, ch) == IF k = 0 THEN 0 ELSE SumAt(k - 1, i, ch) + Value(k, i, ch)

ValuesAt(i, ch) == {Value(k, i, ch) : k \in 1..N}

PixelChannels == {<<i, ch>> : i \in 1..(width * height), ch \in 1..3}

\* C1: the output path changes only in the save step, taken when every input
\* has been validated, decoded, format-checked and folded and no step failed;
\* so a run that fails in any earlier step never writes, and a pre-existing
\* output file stays as it was.
C1_WriteOnlyAfterAllFolded ==
    [][outFile' # outFile => (pc = "save" /\ AllValidatedAndFolded)]_vars

\* C1 witness: a run with an existing output file and --overwrite folded its
\* first input, failed on the second, and the old file is still there.
C1_Witness ==
    /\ pc = "failed"
    /\ err \in {"UnsupportedPixelFormat", "DecodeFailed"}
    /\ Len(folded) >= 1
    /\ overwrite
    /\ outFile.kind = "old"

\* C2: validation precedes folding.  The reference size is the first
\* input's; while validating, exactly the inputs before idx have been
\* queried, in input order; the accumulator is not created, and nothing is
\* decoded or folded, before every input has been queried and found to have
\* the reference size; a dimension-mismatch error names the
\* first input whose size differs, no later input has been queried, nothing
\* has been folded and the output path is untouched; and every folded image
\* has the accumulator's size.
C2_ValidationBeforeFold ==
    /\ pc \in {"validate", "alloc", "fold", "finalize", "save", "done"}
          => <<width, height>> = File(1).dims
    /\ pc = "validate" => queried = 1..(idx - 1)
    /\ (\/ pc \in {"alloc", "fold", "finalize", "save", "done"}
        \/ err \in {"DecodeFailed", "UnsupportedPixelFormat", "EncodeFailed"}
        \/ folded # <<>>) =>
          /\ queried = 1..N
          /\ \A i \in 1..N : File(i).dims = <<width, height>>
    /\ folded # <<>> =>
          /\ Len(outImg) = width * height
          /\ \A k \in 1..Len(folded) :
                Len(Samples(File(folded[k]))) = Len(outImg)
    /\ err = "DimensionMismatch" =>
          /\ errInput \in 2..N
          /\ File(errInput).dims # File(1).dims
          /\ \A j \in 1..(errInput - 1) : File(j).dims = File(1).dims
          /\ queried = 1..errInput
          /\ folded = <<>>
          /\ OutputUntouched

\* C2 witness: the second of three inputs has another size; the run failed
\* naming it, and the third input, of yet another size, was never queried.
C2_Witness ==
    /\ pc = "failed"
    /\ err = "DimensionMismatch"
    /\ errInput = 2
    /\ N = 3
    /\ File(3).dims # File(1).dims
    /\ File(3).dims # File(2).dims
    /\ 3 \notin queried

\* C3 (as claimed): every input whose dimensions are queried, the first
\* included, was found to exist and to be a regular file, and a run that
\* fails on an input that does not exist or is not a regular file fails
\* with InputMissing.
C3_AllInputsCheckedForExistence ==
    /\ \A i \in queried : Present(File(i))
    /\ (pc = "failed" /\ errInput > 0 /\ ~Present(File(errInput)))
          => err = "InputMissing"

\* C4: in Sum mode the saved value at every pixel and channel is
\* min(255, sum of the inputs' values there).
C4_SumSaturates ==
    (Done /\ mode = "Sum") =>
        /\ outFile.width = width /\ outFile.height = height
        /\ \A pc0 \in PixelChannels :
              outFile.pixels[pc0[1]][pc0[2]] = MinOf(U8Max, SumAt(N, pc0[1], pc0[2]))

\* C4 witness: a saved Sum of several inputs in which one channel was clamped
\* at 255 and another stayed below it.
C4_Witness ==
    /\ Done /\ mode = "Sum" /\ N >= 2
    /\ \E pc0 \in PixelChannels : SumAt(N, pc0[1], pc0[2]) > U8Max
    /\ \E pc0 \in PixelChannels :
          /\ SumAt(N, pc0[1], pc0[2]) < U8Max
          /\ SumAt(N, pc0[1], pc0[2]) > 0

\* C5: in SumOverflow mode the saved value at every pixel and channel is the
\* sum of the inputs' values there modulo 256.
C5_SumOverflowWraps ==
    (Done /\ mode = "SumOverflow") =>
        /\ outFile.width = width /\ outFile.height = height
        /\ \A pc0 \in PixelChannels :
              outFile.pixels[pc0[1]][pc0[2]] = SumAt(N, pc0[1], pc0[2]) % 256

\* C5 witness: a saved SumOverflow image in which some channel's sum passed
\* 255 and wrapped around once.
C5_Witness ==
    /\ Done /\ mode = "SumOverflow" /\ N >= 2
    /\ \E pc0 \in PixelChannels :
          /\ SumAt(N, pc0[1], pc0[2]) > U8Max
          /\ outFile.pixels[pc0[1]][pc0[2]] = SumAt(N, pc0[1], pc0[2]) - 256

\* The largest / smallest element of a non-empty set of numbers.
SetMax(S) == CHOOSE x \in S : \A y \in S : y <= x

SetMin(S) == CHOOSE x \in S : \A y \in S : x <= y

\* The permutations of 1..n.
Perms(n) == {p \in [1..n -> 1..n] : \A i, j \in 1..n : p[i] = p[j] => i = j}

\* C6: in Max mode the saved value at every pixel and channel is the largest
\* of the inputs' values there, and folding the inputs in any other order
\* gives the same image.
C6_MaxOrderIndependent ==
    (Done /\ mode = "Max") =>
        /\ \A pc0 \in PixelChannels :
              outFile.pixels[pc0[1]][pc0[2]] = SetMax(ValuesAt(pc0[1], pc0[2]))
        /\ \A p \in Perms(N) :
              FoldAll("Max", Seed("Max", width, height),
                      [i \in 1..N |-> inputs[p[i]]]) = outFile.pixels

\* C6 witness: a saved Max of three different inputs, where the largest value
\* of some channel comes from the first input and of another from the last.
C6_Witness ==
    /\ Done /\ mode = "Max" /\ N = 3
    /\ inputs[1] # inputs[2] /\ inputs[2] # inputs[3] /\ inputs[1] # inputs[3]
    /\ \E pc0 \in PixelChannels :
          /\ Value(1, pc0[1], pc0[2]) > Value(2, pc0[1], pc0[2])
          /\ Value(1, pc0[1], pc0[2]) > Value(3, pc0[1], pc0[2])
    /\ \E pc0 \in PixelChannels :
          /\ Value(3, pc0[1], pc0[2]) > Value(1, pc0[1], pc0[2])
          /\ Value(3, pc0[1], pc0[2]) > Value(2, pc0[1], pc0[2])

\* C7 (as claimed): in Min mode the saved value at every pixel and channel
\* is the smallest of the inputs' values there.
C7_MinIsMinimum ==
    (Done /\ mode = "Min") =>
        \A pc0 \in PixelChannels :
            outFile.pixels[pc0[1]][pc0[2]] = SetMin(ValuesAt(pc0[1], pc0[2]))

\* C8 (as claimed): under every mode a batch of one input saves that
\* input's pixels, projected to three channels.
C8_SingleInputUnchanged ==
    (Done /\ N = 1) => outFile.pixels = Samples(File(1))

\* round(255 * mean of the normalized values) in exact arithmetic, which is
\* round(s / n), halves rounded up.
RoundedMean(s, n) == (2 * s + n) \div (2 * n)

Dist(a, b) == IF a >= b THEN a - b ELSE b - a

\* C9: in Average mode the divisor is the number of inputs from the moment
\* the accumulator is created, the accumulator holds the undivided running
\* sum until every input is folded, and the saved value at every pixel and
\* channel is within one unit of round(255 * mean of the normalized values).
C9_AverageWithinOneUnit ==
    mode = "Average" =>
        /\ pc \in {"fold", "finalize", "save", "done"} => divisor = F32FromInt(N)
        /\ pc \in {"fold", "finalize"} =>
              outImg = FoldAllF32(Seed("Average", width, height),
                                  [k \in 1..Len(folded) |-> inputs[folded[k]]])
        /\ Done =>
              \A pc0 \in PixelChannels :
                  Dist(outFile.pixels[pc0[1]][pc0[2]],
                       RoundedMean(SumAt(N, pc0[1], pc0[2]), N)) <= 1

\* C9 witness: a saved Average of three inputs where the mean of some
\* channel is not a whole number and the mean of another is.
C9_Witness ==
    /\ Done /\ mode = "Average" /\ N = 3
    /\ \E pc0 \in PixelChannels : SumAt(N, pc0[1], pc0[2]) % N # 0
    /\ \E pc0 \in PixelChannels :
          /\ SumAt(N, pc0[1], pc0[2]) % N = 0
          /\ SumAt(N, pc0[1], pc0[2]) > 0

\* Every channel value of an f32 image is at most b.
AllLe(img, b) == \A i \in 1..Len(img) : \A ch \in 1..3 : F32Le(img[i][ch], b)

\* C10 (as claimed): in Average mode every accumulator channel value is in
\* [0,1] after every fold step, up to the finalization divide.
C10_AccumulatorInUnitRange ==
    (mode = "Average" /\ pc \in {"fold", "finalize"}) => AllLe(outImg, F32One)

\* C10 (amended): in Average mode, after k inputs have been folded every
\* accumulator channel value is in [0,k], and the finalization divide brings
\* every value into [0,1].
C10_AccumulatorBoundedByCount ==
    mode = "Average" =>
        /\ pc \in {"fold", "finalize"} => AllLe(outImg, F32FromInt(Len(folded)))
        /\ pc = "finalize" => AllLe(Divide(outImg, divisor), F32One)

\* C10 witness: two inputs are folded, the divide has not happened, and some
\* accumulator channel value is above 1.
C10_Witness ==
    /\ mode = "Average" /\ pc = "finalize" /\ Len(folded) = 2
    /\ ~AllLe(outImg, F32One)

====
